---- MODULE Spec2Model ----
(***************************************************************************)
(* The "Add Stock" form of src/src/components/AddStocks.js as a state      *)
(* machine: the React state of one form instance, its debounce timer, the  *)
(* preview reconciliations (checkExistingStock) and write requests         *)
(* (handleSubmit) in flight, and the product set and stock store behind    *)
(* the REST API.                                                           *)
(*                                                                         *)
(* Texts (the values of the input fields) are sequences of one-character   *)
(* strings, so that parseInt and string truthiness are computed as         *)
(* JavaScript computes them.  null is the empty sequence <<>> and an       *)
(* object x is <<x>>.  A response carries the content the server holds     *)
(* when the response is delivered.                                         *)
(***************************************************************************)
EXTENDS Integers, Sequences, FiniteSets, Bags

VARIABLES
    isOpen,         \* prop isOpen of the component (l.6)
    formData,       \* useState l.7-11: [stockId, productId, quantity] texts
    error,          \* useState l.12
    productError,   \* useState l.13
    loading,        \* useState l.14
    currentStock,   \* useState l.15: <<>> (null) or <<record>>
    stockIdExists,  \* useState l.16
    timer,          \* pending setTimeout of l.94: <<>> or <<captured fields>>
    previews,       \* bag of the checkExistingStock calls awaiting a response
    writes,         \* POST /api/stocks requests awaiting a response
    products,       \* ids of the products behind GET /api/products
    stocks,         \* stock records behind /api/stocks, in listing order
    edits,          \* history: the number of input changes that altered a field
    lastEvent       \* history: the step that produced this state

vars == <<isOpen, formData, error, productError, loading, currentStock,
          stockIdExists, timer, previews, writes, products, stocks, edits, lastEvent>>

----------------------------------------------------------------------------
\* Bounds of the model

\* previews that may await a response at the same time
MaxPreviews == 1
\* write requests that may await a response at the same time
MaxWrites == 2
\* largest quantity a stock record is let to reach
MaxQty == 2
\* input changes that alter a field, over one run
MaxEdits == 4

\* ids of the records the store can start with
InitStockIds == {1}
\* the products a record of the initial store can be bound to
InitStockProducts == {1}
\* the products that exist: 1 and 2; 3 is never a product
ProductSets == {{1, 2}}
\* quantity of the records the store starts with
InitQty == 1

\* values the user can give to the id fields and the quantity field
StockIdTexts == {<<>>, <<"1">>, <<"2">>, <<"-", "1">>}
ProductIdTexts == {<<>>, <<"1">>, <<"2">>, <<"3">>}
QuantityTexts == {<<>>, <<"0", "1">>}

----------------------------------------------------------------------------
\* JavaScript values

NULL == <<>>
EmptyText == <<>>

\* a string is truthy unless it is empty (l.30, l.34, l.57, l.152)
Truthy(s) == s /= EmptyText

\* the value parseInt returns for a text with no leading digits
NaN == -999999

IsDigit(c) == c \in {"0", "1", "2", "3", "4", "5", "6", "7", "8", "9"}

DigitVal(c) ==
    CASE c = "0" -> 0 [] c = "1" -> 1 [] c = "2" -> 2 [] c = "3" -> 3
      [] c = "4" -> 4 [] c = "5" -> 5 [] c = "6" -> 6 [] c = "7" -> 7
      [] c = "8" -> 8 [] c = "9" -> 9

RECURSIVE ParseDigits(_, _, _)
ParseDigits(s, i, acc) ==
    IF i > Len(s) \/ ~IsDigit(s[i]) THEN acc
    ELSE ParseDigits(s, i + 1, acc * 10 + DigitVal(s[i]))

\* parseInt(s): an optional sign, then the longest prefix of digits
parseInt(s) ==
    LET signed == s /= <<>> /\ s[1] \in {"-", "+"}
        body == IF signed THEN Tail(s) ELSE s
    IN IF body = <<>> \/ ~IsDigit(body[1]) THEN NaN
       ELSE IF signed /\ s[1] = "-" THEN 0 - ParseDigits(body, 1, 0)
       ELSE ParseDigits(body, 1, 0)

isNaN(n) == n = NaN

\* a === b on numbers: NaN equals nothing
StrictEq(a, b) == ~isNaN(a) /\ ~isNaN(b) /\ a = b

----------------------------------------------------------------------------
\* Messages: the texts of error and productError, by template and arguments

Msg(kind, text, num) == [kind |-> kind, text |-> text, num |-> num]
NoMsg == Msg("", EmptyText, 0)
ProductMissingMsg == Msg("Product ID does not exist", EmptyText, 0)
StockAssignedMsg(stockIdText, productId) ==
    Msg("Stock ID {text} is already assigned to Product ID {num}", stockIdText, productId)
ProductHasStockMsg(productIdText, stockId) ==
    Msg("Product ID {text} already has Stock ID {num}", productIdText, stockId)
CurrentQuantityMsg(quantity) ==
    Msg("Current stock quantity: {num}. New quantity will be added to this.", EmptyText, quantity)
CheckErrorMsg == Msg("Error checking stock information", EmptyText, 0)
AllRequiredMsg == Msg("All fields are required", EmptyText, 0)
ServerErrorMsg == Msg("{err.response.data.error}", EmptyText, 0)
RequestErrorMsg == Msg("Error processing your request", EmptyText, 0)

EmptyForm == [stockId |-> EmptyText, productId |-> EmptyText, quantity |-> EmptyText]

\* a step of the form: what happened and, for a stock listing received, the field
\* values its preview had captured
Event(type, stockId, productId) ==
    [type |-> type, stockId |-> stockId, productId |-> productId]
\* a step that no property has to recognise.  The types that are recognised:
\* "open", "superseded" (an input change replaced a pending timer),
\* "productMissing", "productFailed", "stocksListed", "stocksFailed",
\* "submitDisabled", "submitInvalid", "submitSent", "writeSucceeded", "writeFailed"
OtherEvent == Event("", EmptyText, EmptyText)

----------------------------------------------------------------------------
\* The collaborators behind the REST API

StockRecord(id, product_id, quantity) ==
    [id |-> id, product_id |-> product_id, quantity |-> quantity]

\* no two records of a list share an id / a product_id
UniqueIds(list) ==
    \A i, j \in 1..Len(list) : list[i].id = list[j].id => i = j
UniqueProducts(list) ==
    \A i, j \in 1..Len(list) : list[i].product_id = list[j].product_id => i = j

\* the stores the form starts on: one record per id, at most one record per
\* product, every record bound to a product that exists, and at least one record
InitStores(prods) ==
    LET Recs == {StockRecord(i, p, InitQty) : i \in InitStockIds, p \in InitStockProducts \cap prods}
        Lists == {<<r>> : r \in Recs} \cup {<<r, q>> : r \in Recs, q \in Recs}
    IN {l \in Lists : UniqueIds(l) /\ UniqueProducts(l)}

\* GET /api/products?id=...: response.data.product is set iff the product exists
ProductFound(productIdText) == parseInt(productIdText) \in products

\* POST /api/stocks: a record with the id exists -> its quantity is incremented;
\* otherwise a record is created from the body
ServerWrite(list, body) ==
    IF \E i \in 1..Len(list) : list[i].id = body.id
    THEN [i \in 1..Len(list) |->
            IF list[i].id = body.id
            THEN [list[i] EXCEPT !.quantity = list[i].quantity + body.quantity]
            ELSE list[i]]
    ELSE Append(list, StockRecord(body.id, body.product_id, body.quantity))

\* the largest quantity of a list (0 when empty)
MaxQuantity(list) ==
    IF list = <<>> THEN 0
    ELSE CHOOSE q \in {list[i].quantity : i \in 1..Len(list)} :
            \A i \in 1..Len(list) : list[i].quantity <= q

----------------------------------------------------------------------------
\* checkExistingStock (l.29-92)

\* Array.prototype.find: the first element that passes the test, or null;
\* passes is the set of the indexes of the elements that pass
Find(list, passes) ==
    IF passes = {} THEN NULL
    ELSE <<list[CHOOSE i \in passes : \A j \in passes : i <= j]>>

\* l.57-58
ExistingStock(fd, list) ==
    IF Truthy(fd.stockId)
    THEN Find(list, {i \in 1..Len(list) : StrictEq(list[i].id, parseInt(fd.stockId))})
    ELSE NULL

\* l.59-60
ProductStock(fd, list) ==
    IF Truthy(fd.productId)
    THEN Find(list, {i \in 1..Len(list) : StrictEq(list[i].product_id, parseInt(fd.productId))})
    ELSE NULL

\* l.64: the record with the stock id is bound to another product
Mismatch(fd, existingStock) ==
    /\ existingStock /= NULL
    /\ Truthy(fd.productId)
    /\ ~StrictEq(existingStock[1].product_id, parseInt(fd.productId))

\* l.73: the product is bound to a record other than the one with the stock id
ProductTaken(existingStock, productStock) ==
    /\ productStock /= NULL
    /\ (existingStock = NULL \/ ~StrictEq(existingStock[1].id, productStock[1].id))

\* l.79: the record with the stock id is bound to the product
IsUpdate(fd, existingStock) ==
    /\ existingStock /= NULL
    /\ StrictEq(existingStock[1].product_id, parseInt(fd.productId))

\* StockCheck with the two rejection rules in the other order (l.73-77 before
\* l.62-71): the fault C4's precedence guards against
StockCheck_TakenFirst(fd, list, old) ==
    LET existingStock == ExistingStock(fd, list)
        productStock == ProductStock(fd, list)
        exists == existingStock /= NULL
    IN IF ProductTaken(existingStock, productStock)
       THEN [old EXCEPT !.stockIdExists = exists,
                        !.productError = ProductHasStockMsg(fd.productId, productStock[1].id),
                        !.currentStock = NULL]
       ELSE IF Mismatch(fd, existingStock)
       THEN [old EXCEPT !.stockIdExists = exists,
                        !.productError = StockAssignedMsg(fd.stockId, existingStock[1].product_id),
                        !.currentStock = NULL]
       ELSE IF IsUpdate(fd, existingStock)
       THEN [old EXCEPT !.stockIdExists = exists,
                        !.currentStock = existingStock,
                        !.error = CurrentQuantityMsg(existingStock[1].quantity),
                        !.productError = NoMsg]
       ELSE [old EXCEPT !.stockIdExists = exists,
                        !.currentStock = NULL,
                        !.error = NoMsg,
                        !.productError = NoMsg]

\* StockCheck whose rejections leave currentStock as it was (without l.66 and l.75)
StockCheck_KeepsCurrent(fd, list, old) ==
    LET existingStock == ExistingStock(fd, list)
        productStock == ProductStock(fd, list)
        exists == existingStock /= NULL
    IN IF Mismatch(fd, existingStock)
       THEN [old EXCEPT !.stockIdExists = exists,
                        !.productError = StockAssignedMsg(fd.stockId, existingStock[1].product_id)]
       ELSE IF ProductTaken(existingStock, productStock)
       THEN [old EXCEPT !.stockIdExists = exists,
                        !.productError = ProductHasStockMsg(fd.productId, productStock[1].id)]
       ELSE IF IsUpdate(fd, existingStock)
       THEN [old EXCEPT !.stockIdExists = exists,
                        !.currentStock = existingStock,
                        !.error = CurrentQuantityMsg(existingStock[1].quantity),
                        !.productError = NoMsg]
       ELSE [old EXCEPT !.stockIdExists = exists,
                        !.currentStock = NULL,
                        !.error = NoMsg,
                        !.productError = NoMsg]

\* l.57-87: the state the form is left in by a stock listing `list` received for
\* the captured fields fd, from the state old
StockCheck(fd, list, old) ==
    LET existingStock == ExistingStock(fd, list)
        productStock == ProductStock(fd, list)
        exists == existingStock /= NULL
    IN IF Mismatch(fd, existingStock)
       THEN [old EXCEPT !.stockIdExists = exists,
                        !.productError = StockAssignedMsg(fd.stockId, existingStock[1].product_id),
                        !.currentStock = NULL]
       ELSE IF ProductTaken(existingStock, productStock)
       THEN [old EXCEPT !.stockIdExists = exists,
                        !.productError = ProductHasStockMsg(fd.productId, productStock[1].id),
                        !.currentStock = NULL]
       ELSE IF IsUpdate(fd, existingStock)
       THEN [old EXCEPT !.stockIdExists = exists,
                        !.currentStock = existingStock,
                        !.error = CurrentQuantityMsg(existingStock[1].quantity),
                        !.productError = NoMsg]
       ELSE [old EXCEPT !.stockIdExists = exists,
                        !.currentStock = NULL,
                        !.error = NoMsg,
                        !.productError = NoMsg]

\* the part of the React state a preview writes
PreviewState ==
    [stockIdExists |-> stockIdExists, productError |-> productError,
     currentStock |-> currentStock, error |-> error]

----------------------------------------------------------------------------
\* Initial state: the component is mounted closed; the debounce effect (l.28-96)
\* has run once and holds a timer for the empty fields

Init ==
    /\ isOpen = FALSE
    /\ formData = EmptyForm
    /\ error = NoMsg
    /\ productError = NoMsg
    /\ loading = FALSE
    /\ currentStock = NULL
    /\ stockIdExists = FALSE
    /\ timer = <<[stockId |-> EmptyText, productId |-> EmptyText]>>
    /\ previews = EmptyBag
    /\ writes = <<>>
    /\ products \in ProductSets
    /\ stocks \in InitStores(products)
    /\ edits = 0
    /\ lastEvent = OtherEvent

\* a sequence without its i-th element
RemoveAt(seq, i) == [j \in 1..(Len(seq) - 1) |-> IF j < i THEN seq[j] ELSE seq[j + 1]]

\* Debounce without the cleanup of l.95: the pending timer stays beside the new one
Debounce_NoCleanup(newForm) ==
    IF newForm.stockId /= formData.stockId \/ newForm.productId /= formData.productId
    THEN Append(timer, [stockId |-> newForm.stockId, productId |-> newForm.productId])
    ELSE timer

\* Debounce with stockId as the only dependency of the effect (l.96)
Debounce_StockIdOnly(newForm) ==
    IF newForm.stockId /= formData.stockId
    THEN <<[stockId |-> newForm.stockId, productId |-> newForm.productId]>>
    ELSE timer

\* l.94-96: when stockId or productId changed in a render, the cleanup clears the
\* pending timer and the effect sets a new one that captures the new fields
Debounce(newForm) ==
    IF newForm.stockId /= formData.stockId \/ newForm.productId /= formData.productId
    THEN <<[stockId |-> newForm.stockId, productId |-> newForm.productId]>>
    ELSE timer

\* l.18-26: the parent opens the form
Open ==
    /\ ~isOpen
    /\ isOpen' = TRUE
    /\ formData' = EmptyForm
    /\ error' = NoMsg
    /\ productError' = NoMsg
    /\ currentStock' = NULL
    /\ stockIdExists' = FALSE
    /\ timer' = Debounce(EmptyForm)
    /\ lastEvent' = Event("open", EmptyText, EmptyText)
    /\ UNCHANGED <<loading, previews, writes, products, stocks, edits>>

\* l.251-258: the Cancel button calls onClose, and the parent closes the form
CancelClick ==
    /\ isOpen
    /\ isOpen' = FALSE
    /\ lastEvent' = OtherEvent
    /\ UNCHANGED <<formData, error, productError, loading, currentStock,
                   stockIdExists, timer, previews, writes, products, stocks, edits>>

\* l.101-104: the value is refused
InputRefused(value) ==
    /\ value /= EmptyText
    /\ (isNaN(parseInt(value)) \/ parseInt(value) < 0)

\* l.98-110; edits counts the changes that altered a field
handleInputChange(name, value) ==
    /\ isOpen
    /\ edits < MaxEdits
    /\ IF InputRefused(value)
       THEN /\ lastEvent' = OtherEvent
            /\ UNCHANGED <<formData, timer, edits>>
       ELSE /\ formData' = [formData EXCEPT ![name] = value]
            /\ timer' = Debounce(formData')
            /\ edits' = IF formData' = formData THEN edits ELSE edits + 1
            /\ lastEvent' = IF timer /= <<>> /\ timer' /= timer
                            THEN Event("superseded", EmptyText, EmptyText)
                            ELSE OtherEvent
    /\ UNCHANGED <<isOpen, error, productError, loading, currentStock,
                   stockIdExists, previews, writes, products, stocks>>

\* l.94, l.30-36, l.50: the timer fires and checkExistingStock runs to its first await
TimerFire ==
    /\ timer /= <<>>
    /\ timer' = Tail(timer)
    /\ LET fd == timer[1] IN
       IF ~Truthy(fd.stockId) /\ ~Truthy(fd.productId)
       THEN /\ previews' = previews
            /\ lastEvent' = OtherEvent
       ELSE /\ BagCardinality(previews) < MaxPreviews
            /\ previews' = previews (+) SetToBag({
                  [stockId |-> fd.stockId, productId |-> fd.productId,
                   pc |-> IF Truthy(fd.productId) THEN "product" ELSE "stocks"]})
            /\ lastEvent' = OtherEvent
    /\ UNCHANGED <<isOpen, formData, error, productError, loading, currentStock,
                   stockIdExists, writes, products, stocks, edits>>

\* ProductResponse without the return of l.40 and l.45: after a missing product
\* the preview goes on to the stock listing
ProductResponse_NoReturn(fd, ok) ==
    /\ BagIn(fd, previews)
    /\ fd.pc = "product"
    /\ previews' = (previews (-) SetToBag({fd})) (+) SetToBag({[fd EXCEPT !.pc = "stocks"]})
    /\ IF ok /\ ProductFound(fd.productId)
       THEN /\ lastEvent' = OtherEvent
            /\ UNCHANGED <<productError, currentStock>>
       ELSE /\ productError' = ProductMissingMsg
            /\ currentStock' = NULL
            /\ lastEvent' = Event(IF ok THEN "productMissing" ELSE "productFailed",
                                  EmptyText, EmptyText)
    /\ UNCHANGED <<isOpen, formData, error, loading, stockIdExists, timer, writes,
                   products, stocks, edits>>

\* the product query without the inner catch of l.42-46: a transport error
\* reaches the outer catch of l.88-91
ProductResponse_OuterCatch(fd, ok) ==
    /\ BagIn(fd, previews)
    /\ fd.pc = "product"
    /\ IF ok /\ ProductFound(fd.productId)
       THEN /\ previews' = (previews (-) SetToBag({fd})) (+) SetToBag({[fd EXCEPT !.pc = "stocks"]})
            /\ lastEvent' = OtherEvent
            /\ UNCHANGED <<error, productError, currentStock>>
       ELSE IF ok
       THEN /\ previews' = previews (-) SetToBag({fd})
            /\ productError' = ProductMissingMsg
            /\ currentStock' = NULL
            /\ lastEvent' = Event("productMissing", EmptyText, EmptyText)
            /\ UNCHANGED error
       ELSE /\ previews' = previews (-) SetToBag({fd})
            /\ error' = CheckErrorMsg
            /\ lastEvent' = Event("productFailed", EmptyText, EmptyText)
            /\ UNCHANGED <<productError, currentStock>>
    /\ UNCHANGED <<isOpen, formData, loading, stockIdExists, timer, writes,
                   products, stocks, edits>>

\* l.36-47: the product query of preview fd returns; ok = FALSE is a transport error
ProductResponse(fd, ok) ==
    /\ BagIn(fd, previews)
    /\ fd.pc = "product"
    /\ IF ok /\ ProductFound(fd.productId)
       THEN /\ previews' = (previews (-) SetToBag({fd})) (+) SetToBag({[fd EXCEPT !.pc = "stocks"]})
            /\ lastEvent' = OtherEvent
            /\ UNCHANGED <<productError, currentStock>>
       ELSE /\ previews' = previews (-) SetToBag({fd})
            /\ productError' = ProductMissingMsg
            /\ currentStock' = NULL
            /\ lastEvent' = Event(IF ok THEN "productMissing" ELSE "productFailed",
                                  EmptyText, EmptyText)
    /\ UNCHANGED <<isOpen, formData, error, loading, stockIdExists, timer, writes,
                   products, stocks, edits>>

\* l.50-91: the stock listing of preview fd returns; ok = FALSE is a transport error
StocksResponse(fd, ok) ==
    /\ BagIn(fd, previews)
    /\ fd.pc = "stocks"
    /\ previews' = previews (-) SetToBag({fd})
    /\ IF ok
       THEN LET new == StockCheck(fd, stocks, PreviewState) IN
            /\ stockIdExists' = new.stockIdExists
            /\ productError' = new.productError
            /\ currentStock' = new.currentStock
            /\ error' = new.error
            /\ lastEvent' = Event("stocksListed", fd.stockId, fd.productId)
       ELSE /\ error' = CheckErrorMsg
            /\ lastEvent' = Event("stocksFailed", EmptyText, EmptyText)
            /\ UNCHANGED <<stockIdExists, productError, currentStock>>
    /\ UNCHANGED <<isOpen, formData, loading, timer, writes, products, stocks, edits>>

\* HasRejection reading error where the code reads productError
HasRejection_ReadsError == error /= NoMsg

\* l.156 and l.261: a rejection of the live preview is showing
HasRejection == productError /= NoMsg

\* SubmitDisabled without the test of loading
SubmitDisabled_IgnoresLoading == HasRejection

\* l.261: the submit button is disabled
SubmitDisabled == loading \/ HasRejection

\* validateForm without the test of quantity
validateForm_NoQuantityCheck ==
    IF ~Truthy(formData.stockId) \/ ~Truthy(formData.productId)
    THEN [ok |-> FALSE, error |-> AllRequiredMsg]
    ELSE IF HasRejection
    THEN [ok |-> FALSE, error |-> error]
    ELSE [ok |-> TRUE, error |-> error]

\* l.151-160: the result, and the error the form shows after it
validateForm ==
    IF ~Truthy(formData.stockId) \/ ~Truthy(formData.productId) \/ ~Truthy(formData.quantity)
    THEN [ok |-> FALSE, error |-> AllRequiredMsg]
    ELSE IF HasRejection
    THEN [ok |-> FALSE, error |-> error]
    ELSE [ok |-> TRUE, error |-> error]

\* l.237: the quantity shown as "After adding"
AfterAdding == currentStock[1].quantity + parseInt(formData.quantity)

\* StockData with the stock id and the product id taken from each other's field
StockData_Swapped ==
    [id |-> parseInt(formData.productId),
     product_id |-> parseInt(formData.stockId),
     quantity |-> parseInt(formData.quantity)]

\* l.118-122
StockData ==
    [id |-> parseInt(formData.stockId),
     product_id |-> parseInt(formData.productId),
     quantity |-> parseInt(formData.quantity)]

\* l.112-124, l.259-262: the user presses the submit button; handleSubmit runs to
\* its await unless the button is disabled
SubmitClick ==
    /\ isOpen
    /\ IF SubmitDisabled
       THEN /\ lastEvent' = Event("submitDisabled", EmptyText, EmptyText)
            /\ UNCHANGED <<error, loading, writes>>
       ELSE IF ~validateForm.ok
       THEN /\ error' = validateForm.error
            /\ lastEvent' = Event("submitInvalid", EmptyText, EmptyText)
            /\ UNCHANGED <<loading, writes>>
       ELSE /\ Len(writes) < MaxWrites
            /\ loading' = TRUE
            /\ writes' = Append(writes, StockData)
            /\ lastEvent' = Event("submitSent", EmptyText, EmptyText)
            /\ UNCHANGED error
    /\ UNCHANGED <<isOpen, formData, productError, currentStock, stockIdExists,
                   timer, previews, products, stocks, edits>>

\* l.124-142, l.146-148: the write of request i succeeds
WriteSucceeds(i) ==
    /\ i \in 1..Len(writes)
    /\ MaxQuantity(ServerWrite(stocks, writes[i])) <= MaxQty
    /\ stocks' = ServerWrite(stocks, writes[i])
    /\ writes' = RemoveAt(writes, i)
    /\ isOpen' = FALSE
    /\ formData' = EmptyForm
    /\ timer' = Debounce(EmptyForm)
    /\ currentStock' = NULL
    /\ error' = NoMsg
    /\ loading' = FALSE
    /\ lastEvent' = Event("writeSucceeded", EmptyText, EmptyText)
    /\ UNCHANGED <<productError, stockIdExists, previews, products, edits>>

\* a failed write without the finally block of l.146-148
WriteFails_KeepsLoading(i, withServerError) ==
    /\ i \in 1..Len(writes)
    /\ writes' = RemoveAt(writes, i)
    /\ error' = IF withServerError THEN ServerErrorMsg ELSE RequestErrorMsg
    /\ lastEvent' = Event("writeFailed", EmptyText, EmptyText)
    /\ UNCHANGED <<isOpen, formData, productError, loading, currentStock, stockIdExists,
                   timer, previews, products, stocks, edits>>

\* a failed write that runs l.132-140 of the success path as well
WriteFails_ClearsForm(i, withServerError) ==
    /\ i \in 1..Len(writes)
    /\ writes' = RemoveAt(writes, i)
    /\ formData' = EmptyForm
    /\ timer' = Debounce(EmptyForm)
    /\ currentStock' = NULL
    /\ error' = IF withServerError THEN ServerErrorMsg ELSE RequestErrorMsg
    /\ loading' = FALSE
    /\ lastEvent' = Event("writeFailed", EmptyText, EmptyText)
    /\ UNCHANGED <<isOpen, productError, stockIdExists, previews, products, stocks, edits>>

\* l.143-148: the write of request i fails, with or without an error from the server
WriteFails(i, withServerError) ==
    /\ i \in 1..Len(writes)
    /\ writes' = RemoveAt(writes, i)
    /\ error' = IF withServerError THEN ServerErrorMsg ELSE RequestErrorMsg
    /\ loading' = FALSE
    /\ lastEvent' = Event("writeFailed", EmptyText, EmptyText)
    /\ UNCHANGED <<isOpen, formData, productError, currentStock, stockIdExists,
                   timer, previews, products, stocks, edits>>

Next ==
    \/ Open
    \/ CancelClick
    \/ \E value \in StockIdTexts : handleInputChange("stockId", value)
    \/ \E value \in ProductIdTexts : handleInputChange("productId", value)
    \/ \E value \in QuantityTexts : handleInputChange("quantity", value)
    \/ TimerFire
    \/ \E fd \in BagToSet(previews), ok \in BOOLEAN : ProductResponse(fd, ok)
    \/ \E fd \in BagToSet(previews), ok \in BOOLEAN : StocksResponse(fd, ok)
    \/ SubmitClick
    \/ \E i \in 1..MaxWrites : WriteSucceeds(i)
    \/ \E i \in 1..MaxWrites, e \in BOOLEAN : WriteFails(i, e)

Spec == Init /\ [][Next]_vars

\* l.124, l.143, l.146: the awaited POST settles, as a response or as an error
WriteDone ==
    \/ \E i \in 1..MaxWrites : WriteSucceeds(i)
    \/ \E i \in 1..MaxWrites, e \in BOOLEAN : WriteFails(i, e)

\* the steps of the component when no query of a preview fails in transport
NextReliable ==
    \/ Open
    \/ CancelClick
    \/ \E value \in StockIdTexts : handleInputChange("stockId", value)
    \/ \E value \in ProductIdTexts : handleInputChange("productId", value)
    \/ \E value \in QuantityTexts : handleInputChange("quantity", value)
    \/ TimerFire
    \/ \E fd \in BagToSet(previews) : ProductResponse(fd, TRUE)
    \/ \E fd \in BagToSet(previews) : StocksResponse(fd, TRUE)
    \/ SubmitClick
    \/ \E i \in 1..MaxWrites : WriteSucceeds(i)
    \/ \E i \in 1..MaxWrites, e \in BOOLEAN : WriteFails(i, e)

SpecReliable == Init /\ [][NextReliable]_vars

\* the behaviours in which every write that is sent completes
FairSpec == Spec /\ WF_vars(WriteDone)

----------------------------------------------------------------------------
\* What the properties speak of

\* the number an integer literal denotes
RECURSIVE Value(_)
Value(text) ==
    IF text = <<>> THEN 0
    ELSE 10 * Value(SubSeq(text, 1, Len(text) - 1)) + DigitVal(text[Len(text)])

\* the records of the store with a given id / bound to a given product
RecordsWithId(id) == {stocks[i] : i \in {j \in 1..Len(stocks) : stocks[j].id = id}}
RecordsOfProduct(pid) == {stocks[i] : i \in {j \in 1..Len(stocks) : stocks[j].product_id = pid}}

\* the stock-id/product mismatch rule applies to the fields fd
MismatchRule(fd) ==
    /\ Truthy(fd.stockId) /\ Truthy(fd.productId)
    /\ \E r \in RecordsWithId(Value(fd.stockId)) : r.product_id /= Value(fd.productId)

\* the product-already-has-stock rule applies to the fields fd
TakenRule(fd) ==
    /\ Truthy(fd.productId)
    /\ \E r \in RecordsOfProduct(Value(fd.productId)) :
          ~Truthy(fd.stockId) \/ r.id /= Value(fd.stockId)

\* reconcile(fd) against the current products and stocks is Rejected
Rejected(fd) ==
    \/ Truthy(fd.productId) /\ Value(fd.productId) \notin products
    \/ MismatchRule(fd)
    \/ TakenRule(fd)

\* a stock listing has just been received by a preview
Listed == lastEvent.type = "stocksListed"
ListedFields == [stockId |-> lastEvent.stockId, productId |-> lastEvent.productId]

----------------------------------------------------------------------------
\* C1: a write request is issued by handleSubmit only if reconcile of the
\* submitted field values against the current products and stocks is not
\* Rejected.  The code gates the write on the productError left by the last
\* preview, not on a reconciliation at submit time.
C1_WriteOnlyIfReconciled ==
    lastEvent.type = "submitSent" => ~Rejected(formData)

\* C2: the store holds one record per id and at most one record per product_id
\* after any sequence of edits, previews and submits.
C2_OneRecordPerProduct ==
    UniqueIds(stocks) /\ UniqueProducts(stocks)

\* C3: when the supplied productId is the product_id of a record whose id is not
\* the supplied stockId, and the mismatch rule does not apply, the preview sets
\* productError to "Product ID {productId} already has Stock ID {id}" and
\* currentStock to null.
C3_ProductTakenRejected ==
    LET others == {r \in RecordsOfProduct(Value(ListedFields.productId)) :
                     ~Truthy(ListedFields.stockId) \/ r.id /= Value(ListedFields.stockId)}
    IN (/\ Listed
        /\ Truthy(ListedFields.productId)
        /\ ~MismatchRule(ListedFields)
        /\ others /= {}) =>
            /\ \E r \in others : productError = ProductHasStockMsg(ListedFields.productId, r.id)
            /\ currentStock = NULL

\* C4: when a record with id = stockId exists and is bound to another product than
\* the supplied (existing) productId, the preview sets productError to "Stock ID
\* {stockId} is already assigned to Product ID {the record's product_id}" and
\* currentStock to null, also when the product-already-has-stock rule applies.
C4_MismatchRejected ==
    (Listed /\ Truthy(ListedFields.stockId) /\ Truthy(ListedFields.productId)) =>
        \A r \in RecordsWithId(Value(ListedFields.stockId)) :
            r.product_id /= Value(ListedFields.productId) =>
                /\ productError = StockAssignedMsg(ListedFields.stockId, r.product_id)
                /\ currentStock = NULL

\* a listing was received for which both rejection rules apply
C4_Witness ==
    /\ Listed
    /\ Value(ListedFields.productId) \in products
    /\ MismatchRule(ListedFields)
    /\ TakenRule(ListedFields)
    /\ productError.kind = "Stock ID {text} is already assigned to Product ID {num}"

\* C5: when the product query of a preview returns for a productId that is not in
\* the product set, the preview ends with productError = "Product ID does not
\* exist" and currentStock = null, whatever the stockId, the quantity and the
\* stock list; it sends no stock listing query and leaves stockIdExists alone.
C5_MissingProductRejected ==
    [][\A fd \in BagToSet(previews) :
          (/\ fd.pc = "product"
           /\ Value(fd.productId) \notin products
           /\ CopiesIn(fd, previews') < CopiesIn(fd, previews)) =>
              /\ productError' = ProductMissingMsg
              /\ currentStock' = NULL
              /\ stockIdExists' = stockIdExists
              /\ BagCardinality(previews') = BagCardinality(previews) - 1
              /\ CopiesIn([fd EXCEPT !.pc = "stocks"], previews')
                   = CopiesIn([fd EXCEPT !.pc = "stocks"], previews)]_vars

\* the product query returned no product while the form showed an Update preview
\* of a record of the store
C5_Witness ==
    /\ lastEvent.type = "productMissing"
    /\ productError = ProductMissingMsg
    /\ stockIdExists
    /\ stocks /= <<>>

\* C6: when a record with id = stockId and product_id = productId exists, the
\* preview yields Update: currentStock is that record, productError is empty and
\* the quantity shown as "After adding" is the record's quantity plus the
\* supplied quantity.
C6_UpdatePreview ==
    (Listed /\ Truthy(ListedFields.stockId) /\ Truthy(ListedFields.productId)) =>
        \A r \in RecordsWithId(Value(ListedFields.stockId)) :
            r.product_id = Value(ListedFields.productId) =>
                /\ currentStock = <<r>>
                /\ productError = NoMsg
                /\ Truthy(formData.quantity) =>
                      AfterAdding = r.quantity + Value(formData.quantity)

\* C7: when no record has id = stockId and the (existing) product is bound to no
\* record, the preview yields Create: productError and error are empty and
\* currentStock is null; and the body of the write a submit sends is the supplied
\* triple.
C7_CreatePreview ==
    /\ (/\ Listed
        /\ Truthy(ListedFields.productId)
        /\ RecordsWithId(Value(ListedFields.stockId)) = {}
        /\ RecordsOfProduct(Value(ListedFields.productId)) = {}) =>
            (productError = NoMsg /\ error = NoMsg /\ currentStock = NULL)
    /\ lastEvent.type = "submitSent" =>
            writes[Len(writes)] = [id |-> Value(formData.stockId),
                                   product_id |-> Value(formData.productId),
                                   quantity |-> Value(formData.quantity)]

\* a write was sent for a stock id and a product no record has, with the Create
\* preview showing
C7_Witness ==
    /\ lastEvent.type = "submitSent"
    /\ RecordsWithId(Value(formData.stockId)) = {}
    /\ RecordsOfProduct(Value(formData.productId)) = {}
    /\ Value(formData.productId) \in products
    /\ timer = <<>> /\ previews = EmptyBag
    /\ ~stockIdExists /\ currentStock = NULL

\* the step is a run of handleSubmit
HandleSubmitRuns == lastEvent'.type \in {"submitInvalid", "submitSent"}
\* the step is a press of the submit button
SubmitPressed == lastEvent'.type \in {"submitDisabled", "submitInvalid", "submitSent"}

AnyFieldEmpty ==
    ~Truthy(formData.stockId) \/ ~Truthy(formData.productId) \/ ~Truthy(formData.quantity)

\* C8: a run of handleSubmit with a field empty sets error to "All fields are
\* required", sends no write, leaves loading false and the fields as they are.
C8_EmptyFieldNoWrite ==
    [][(AnyFieldEmpty /\ HandleSubmitRuns) =>
          /\ error' = AllRequiredMsg
          /\ writes' = writes
          /\ loading = FALSE /\ loading' = FALSE
          /\ formData' = formData]_vars

\* handleSubmit ran with only the quantity missing
C8_Witness ==
    /\ lastEvent.type = "submitInvalid"
    /\ Truthy(formData.stockId) /\ Truthy(formData.productId)
    /\ ~Truthy(formData.quantity)
    /\ error = AllRequiredMsg

\* C9: a submit while productError is non-empty sends no write and does not
\* enter Submitting.
C9_RejectedNoWrite ==
    [][(productError /= NoMsg /\ SubmitPressed) =>
          (writes' = writes /\ loading' = loading)]_vars

\* the submit button was pressed with all fields filled, nothing in flight and a
\* rejection showing
C9_Witness ==
    /\ lastEvent.type = "submitDisabled"
    /\ productError /= NoMsg
    /\ ~AnyFieldEmpty
    /\ ~loading

\* C10: at most one write request is in flight, and one is in flight exactly
\* while loading is true.
C10_OneWriteInFlight ==
    /\ Len(writes) <= 1
    /\ loading <=> (writes /= <<>>)

\* the submit button was pressed while a write was in flight
C10_Witness ==
    /\ lastEvent.type = "submitDisabled"
    /\ Len(writes) = 1
    /\ productError = NoMsg
    /\ ~AnyFieldEmpty

\* the id fields of the form, as a timer captures them
IdFields == [stockId |-> formData.stockId, productId |-> formData.productId]

\* C11: at most one debounced preview is pending, and the pending one has captured
\* the field values of the last edit; so the preview that the timer starts reads
\* those values.
C11_OneTimerLastEdit ==
    /\ Len(timer) <= 1
    /\ timer /= <<>> => timer[1] = IdFields

\* an edit of an id field has just replaced a pending timer for other values
C11_Witness ==
    /\ lastEvent.type = "superseded"
    /\ edits >= 2
    /\ Len(timer) = 1
    /\ Truthy(timer[1].stockId) /\ Truthy(timer[1].productId)

C13_OneOperationInFlight == BagCardinality(previews) + Len(writes) <= 1

\* C14: while the form stays closed (after Cancel or a successful submit) no
\* debounced preview fires, so no new preview starts.
C14_NoPreviewStartsClosed ==
    [][(~isOpen /\ ~isOpen') => BagCardinality(previews') <= BagCardinality(previews)]_vars

\* the Idle state of the form: nothing typed, nothing shown
Idle ==
    /\ formData = EmptyForm
    /\ error = NoMsg
    /\ productError = NoMsg
    /\ currentStock = NULL

\* C15: the form that was just reopened is Idle, and the next step leaves it Idle
\* unless the user acts on it (an edit, a press of submit, Cancel), whatever
\* previews or writes were pending or in flight at the reopening.
C15_IdleAfterReopen ==
    [][(lastEvent.type = "open" /\ isOpen' /\ edits' = edits /\ ~SubmitPressed)
          => (Idle /\ Idle')]_vars

\* C16: a submission that entered Submitting (loading true, a write in flight)
\* leaves it when the write completes: loading returns to false, and the step that
\* ends it is Done (the write applied, the form closed, the fields cleared) or
\* Failed (the store untouched, error set).
C16_SubmittingEnds ==
    /\ loading ~> ~loading
    /\ [][(loading /\ ~loading') =>
             /\ writes /= <<>>
             /\ \/ /\ \E i \in 1..Len(writes) : stocks' = ServerWrite(stocks, writes[i])
                   /\ ~isOpen'
                   /\ formData' = EmptyForm
                   /\ error' = NoMsg
                \/ /\ stocks' = stocks
                   /\ error' \in {ServerErrorMsg, RequestErrorMsg}]_vars

\* a write has failed: Submitting was left for Failed
C16_Witness ==
    /\ lastEvent.type = "writeFailed"
    /\ ~loading
    /\ error = RequestErrorMsg
    /\ writes = <<>>

\* C17: a failed write sets error to the server's message or to "Error processing
\* your request", leaves the fields, productError and currentStock as they were,
\* does not close the form (neither onSubmit nor onClose runs) and does not
\* change the store; the request is gone and only a press of submit sends another.
C17_FailedWriteSurfaces ==
    /\ [][lastEvent'.type = "writeFailed" =>
             /\ error' \in {ServerErrorMsg, RequestErrorMsg}
             /\ formData' = formData
             /\ productError' = productError
             /\ currentStock' = currentStock
             /\ isOpen' = isOpen
             /\ stocks' = stocks
             /\ Len(writes') = Len(writes) - 1]_vars
    /\ [][Len(writes') > Len(writes) => lastEvent'.type = "submitSent"]_vars

\* a write of a filled, open form has failed with a message from the server
C17_Witness ==
    /\ lastEvent.type = "writeFailed"
    /\ error = ServerErrorMsg
    /\ ~AnyFieldEmpty
    /\ isOpen
    /\ writes = <<>>

\* C18: a transport error on the product query has the outcome of a product that
\* is not found (productError "Product ID does not exist", currentStock null, the
\* preview over without a listing query, nothing else touched); a transport error
\* on the stock listing sets error to "Error checking stock information" and
\* touches nothing else.
C18_TransportErrors ==
    /\ [][lastEvent'.type \in {"productFailed", "productMissing"} =>
             /\ productError' = ProductMissingMsg
             /\ currentStock' = NULL
             /\ BagCardinality(previews') = BagCardinality(previews) - 1
             /\ \A p \in BagToSet(previews') : BagIn(p, previews)
             /\ UNCHANGED <<error, stockIdExists, formData, loading, isOpen, stocks>>]_vars
    /\ [][lastEvent'.type = "stocksFailed" =>
             /\ error' = CheckErrorMsg
             /\ BagCardinality(previews') = BagCardinality(previews) - 1
             /\ UNCHANGED <<productError, currentStock, stockIdExists, formData, loading,
                            isOpen, stocks>>]_vars

\* the product query of a preview has failed in transport
C18_Witness ==
    /\ lastEvent.type = "productFailed"
    /\ productError = ProductMissingMsg
    /\ currentStock = NULL
    /\ error = NoMsg
    /\ previews = EmptyBag

\* nothing of the form is pending or in flight: the previews of all edits are over
Quiescent ==
    /\ isOpen
    /\ timer = <<>>
    /\ previews = EmptyBag
    /\ writes = <<>>

\* reconcile(fd) against the current products and stocks is Update
UpdateRule(fd) ==
    /\ Truthy(fd.stockId) /\ Truthy(fd.productId)
    /\ ~Rejected(fd)
    /\ \E r \in RecordsWithId(Value(fd.stockId)) : r.product_id = Value(fd.productId)

\* C19: when no preview failed in transport and nothing is pending or in flight,
\* the form shows the outcome of reconcile for the fields as they are now:
\* productError is non-empty exactly if it is Rejected and currentStock is
\* non-null exactly if it is Update.  Stated for stockId and productId both
\* typed or both cleared, where reconcile leaves no doubt.
C19_ShowsCurrentOutcome ==
    (Quiescent /\ (Truthy(formData.stockId) <=> Truthy(formData.productId))) =>
        /\ (productError /= NoMsg) <=> Rejected(IdFields)
        /\ (currentStock /= NULL) <=> UpdateRule(IdFields)

\* C20: whenever currentStock is non-null (an Update preview is showing),
\* productError is empty.
C20_UpdateHasNoRejection == currentStock /= NULL => productError = NoMsg

\* a preview has just put an Update preview on the open form
C20_Witness ==
    /\ Listed
    /\ isOpen
    /\ currentStock /= NULL
    /\ productError = NoMsg
    /\ UpdateRule(ListedFields)

====
